---- MODULE Spec2Model ----
(***************************************************************************)
(* A model of the icesmtp protocol engine: one SMTP session driven by      *)
(* Engine.Run over a deadline-aware Conn, its StateMachine, the envelope   *)
(* builder it owns, and the collaborators (Storage, Hooks) it calls.       *)
(* Engine.Close and the cancellation of Run's context are concurrent       *)
(* tasks.                                                                  *)
(***************************************************************************)
EXTENDS Integers, Sequences, FiniteSets, TLC

VARIABLES
    config,      \* SessionConfig, fixed at construction
    pc,          \* where the session task (Engine.Run) stands
    eng,         \* the Engine's fields: sm, state, envelope, closed, ...
    obs,         \* what the wire and the collaborators have observed
    body,        \* readData's buffer length while a body is streamed
    ctxDone,     \* Run's context has been cancelled
    connClosed,  \* Conn.Close has been called
    closePc,     \* where the task calling Engine.Close stands
    closeCan,    \* result of canTransition(Aborted) read by Close's sm.Abort()
    bld,         \* a StandardEnvelopeBuilder driven directly, its writers and envelopes
    rd,          \* readData's loop over the lines of one body, byte by byte
    lk           \* one (state, verb) pair and what the two command tables say of it

vars == <<config, pc, eng, obs, body, ctxDone, connClosed, closePc, closeCan, bld, rd, lk>>

(***************************************************************************)
(* Bounds of the model.                                                    *)
(***************************************************************************)
\* the largest consecutive_errors value at which the client still sends input
MaxErrorCount == 2
\* the number of messages a session accepts before the client stops sending MAIL
MaxMessages == 1
\* the number of recipients a client adds to one envelope
MaxRcpts == 2
\* the number of body bytes a client streams in one DATA
MaxBody == 2

\* SessionLimits.MaxErrors of the configurations explored (0 = no cap)
MaxErrorsCfg == 2
\* SessionLimits.MaxMessageSize of the configurations explored (0 = no cap)
MaxMessageSizeCfg == 1
\* SessionLimits.MaxRecipients of the configurations explored (0 = no cap)
MaxRecipientsCfg == 1
\* SessionLimits.MaxTransactions of the configurations explored (0 = no cap)
MaxTransactionsCfg == 1

\* the capacity of the first array a bytes.Buffer allocates
smallBufferSize == 2
\* the number of bytes written through the writers of one builder
MaxWrites == 2
\* the number of recipients added to one builder between two resets
MaxBuilderRcpts == 1
\* the number of times one builder is reset
MaxResets == 1

\* TLS handshakes followed in one session
MaxHandshakes == 2

\* the number of lines of a body, and of bytes of a line before its line feed
MaxLines == 2
MaxLineLen == 2
\* SessionLimits.MaxLineLength and MaxMessageSize of the bodies read (0 = no cap)
LineLimitCfg == 3
SizeLimitCfg == 4


(***************************************************************************)
(* State (src/storage.go:412-516) and the state machine                    *)
(* (src/statemachine.go).                                                  *)
(***************************************************************************)
States ==
    {"Disconnected", "Connected", "Greeted", "Identified", "MailFrom", "RcptTo",
     "Data", "DataDone", "StartTLS", "Terminating", "Terminated", "Aborted"}

IsTerminal(s) == s \in {"Terminated", "Aborted"}

CanAcceptCommands(s) == s \in {"Greeted", "Identified", "MailFrom", "RcptTo"}

InTransaction(s) == s \in {"MailFrom", "RcptTo", "Data"}

\* validTransitions without the way back from MailFrom to Identified
validTransitionsNoReset(s) ==
    CASE s = "Disconnected" -> {"Connected"}
      [] s = "Connected"    -> {"Greeted", "Terminated", "Aborted"}
      [] s = "Greeted"      -> {"Identified", "Terminating", "Aborted"}
      [] s = "Identified"   -> {"Identified", "MailFrom", "StartTLS", "Terminating", "Aborted"}
      [] s = "MailFrom"     -> {"RcptTo", "Terminating", "Aborted"}
      [] s = "RcptTo"       -> {"RcptTo", "Data", "Identified", "Terminating", "Aborted"}
      [] s = "Data"         -> {"DataDone", "Aborted"}
      [] s = "DataDone"     -> {"Identified", "Terminating", "Aborted"}
      [] s = "StartTLS"     -> {"Greeted", "Aborted"}
      [] s = "Terminating"  -> {"Terminated"}
      [] OTHER              -> {}

validTransitions(s) ==
    CASE s = "Disconnected" -> {"Connected"}
      [] s = "Connected"    -> {"Greeted", "Terminated", "Aborted"}
      [] s = "Greeted"      -> {"Identified", "Terminating", "Aborted"}
      [] s = "Identified"   -> {"Identified", "MailFrom", "StartTLS", "Terminating", "Aborted"}
      [] s = "MailFrom"     -> {"RcptTo", "Identified", "Terminating", "Aborted"}
      [] s = "RcptTo"       -> {"RcptTo", "Data", "Identified", "Terminating", "Aborted"}
      [] s = "Data"         -> {"DataDone", "Aborted"}
      [] s = "DataDone"     -> {"Identified", "Terminating", "Aborted"}
      [] s = "StartTLS"     -> {"Greeted", "Aborted"}
      [] s = "Terminating"  -> {"Terminated"}
      [] OTHER              -> {}

canTransition(s, newState) == newState \in validTransitions(s)

Verbs ==
    {"HELO", "EHLO", "MAIL", "RCPT", "DATA", "RSET", "NOOP", "QUIT",
     "VRFY", "EXPN", "HELP", "STARTTLS", "AUTH"}

\* AllowedCommands with DATA let through before any RCPT
AllowedCommandsDataAfterMail(s) ==
    CASE s = "Greeted"    -> {"HELO", "EHLO", "QUIT", "NOOP", "HELP", "RSET"}
      [] s = "Identified" -> {"HELO", "EHLO", "MAIL", "QUIT", "NOOP", "HELP", "RSET",
                              "VRFY", "EXPN", "STARTTLS", "AUTH"}
      [] s = "MailFrom"   -> {"RCPT", "DATA", "RSET", "QUIT", "NOOP", "HELP"}
      [] s = "RcptTo"     -> {"RCPT", "DATA", "RSET", "QUIT", "NOOP", "HELP"}
      [] OTHER            -> {}

AllowedCommands(s) ==
    CASE s = "Greeted"    -> {"HELO", "EHLO", "QUIT", "NOOP", "HELP", "RSET"}
      [] s = "Identified" -> {"HELO", "EHLO", "MAIL", "QUIT", "NOOP", "HELP", "RSET",
                              "VRFY", "EXPN", "STARTTLS", "AUTH"}
      [] s = "MailFrom"   -> {"RCPT", "RSET", "QUIT", "NOOP", "HELP"}
      [] s = "RcptTo"     -> {"RCPT", "DATA", "RSET", "QUIT", "NOOP", "HELP"}
      [] OTHER            -> {}

IsCommandAllowed(s, verb) == verb \in AllowedCommands(s)

\* CommandStateRequirements with MAIL let through before HELO/EHLO
CommandStateRequirementsMailGreeted(verb) ==
    CASE verb \in {"HELO", "EHLO"} -> {"Greeted", "Identified"}
      [] verb = "MAIL" -> {"Greeted", "Identified"}
      [] verb = "RCPT" -> {"MailFrom", "RcptTo"}
      [] verb = "DATA" -> {"RcptTo"}
      [] verb \in {"RSET", "NOOP", "QUIT", "HELP"} ->
             {"Greeted", "Identified", "MailFrom", "RcptTo"}
      [] verb \in {"VRFY", "EXPN", "STARTTLS", "AUTH"} -> {"Identified"}
      [] OTHER -> {}

\* the map CommandStateRequirements; a verb with no entry has no state
CommandStateRequirements(verb) ==
    CASE verb \in {"HELO", "EHLO"} -> {"Greeted", "Identified"}
      [] verb = "MAIL" -> {"Identified"}
      [] verb = "RCPT" -> {"MailFrom", "RcptTo"}
      [] verb = "DATA" -> {"RcptTo"}
      [] verb \in {"RSET", "NOOP", "QUIT", "HELP"} ->
             {"Greeted", "Identified", "MailFrom", "RcptTo"}
      [] verb \in {"VRFY", "EXPN", "STARTTLS", "AUTH"} -> {"Identified"}
      [] OTHER -> {}

IsStateValidForCommand(s, verb) == s \in CommandStateRequirements(verb)

\* the table "Command Validity by State" of the protocol documentation: the
\* columns that say Yes in the row of the verb
CommandValidityByState(verb) ==
    CASE verb = "HELO"     -> {"Greeted", "Identified"}
      [] verb = "EHLO"     -> {"Greeted", "Identified"}
      [] verb = "MAIL"     -> {"Identified"}
      [] verb = "RCPT"     -> {"MailFrom", "RcptTo"}
      [] verb = "DATA"     -> {"RcptTo"}
      [] verb = "RSET"     -> {"Greeted", "Identified", "MailFrom", "RcptTo"}
      [] verb = "NOOP"     -> {"Greeted", "Identified", "MailFrom", "RcptTo"}
      [] verb = "QUIT"     -> {"Greeted", "Identified", "MailFrom", "RcptTo"}
      [] verb = "VRFY"     -> {"Identified"}
      [] verb = "EXPN"     -> {"Identified"}
      [] verb = "HELP"     -> {"Greeted", "Identified", "MailFrom", "RcptTo"}
      [] verb = "STARTTLS" -> {"Identified"}
      [] verb = "AUTH"     -> {"Identified"}
      [] OTHER             -> {}

\* no lookup made
InitLookup == [state |-> "Disconnected", verb |-> "NOOP", allowed |-> "unasked", valid |-> "unasked"]

YesNo(b) == IF b THEN "yes" ELSE "no"

nextStateForCommand(s, verb) ==
    CASE verb \in {"HELO", "EHLO"} -> "Identified"
      [] verb = "MAIL"     -> "MailFrom"
      [] verb = "RCPT"     -> "RcptTo"
      [] verb = "DATA"     -> "Data"
      [] verb = "RSET"     -> IF InTransaction(s) THEN "Identified" ELSE s
      [] verb = "QUIT"     -> "Terminating"
      [] verb = "STARTTLS" -> "StartTLS"
      [] OTHER             -> s

IsPositive(code) == code >= 200 /\ code < 400

(***************************************************************************)
(* SessionConfig (src/session.go) of the sessions explored.                *)
(***************************************************************************)
TLSPolicies == {"Disabled", "Optional", "Required", "Immediate"}

Configs ==
    [maxErrors       : {0, MaxErrorsCfg},
     maxMessageSize  : {MaxMessageSizeCfg},
     maxRecipients   : {0},
     maxTransactions : {0},
     hasStorage      : BOOLEAN,
     tlsPolicy       : {"Optional"},
     hasTLSProvider  : {TRUE},
     extSTARTTLS     : {TRUE},
     extSIZE         : {TRUE},
     extHELP         : {TRUE},
     extVRFY         : {FALSE}]

\* every TLS set-up of a session: policy, provider present or nil, extensions
ConfigsTLS ==
    [maxErrors       : {MaxErrorsCfg},
     maxMessageSize  : {MaxMessageSizeCfg},
     maxRecipients   : {0},
     maxTransactions : {0},
     hasStorage      : {TRUE},
     tlsPolicy       : TLSPolicies,
     hasTLSProvider  : BOOLEAN,
     extSTARTTLS     : BOOLEAN,
     extSIZE         : {TRUE},
     extHELP         : BOOLEAN,
     extVRFY         : BOOLEAN]

\* every set-up of the SessionLimits on sizes and counts, SIZE on or off
ConfigsLimits ==
    [maxErrors       : {MaxErrorsCfg},
     maxMessageSize  : {0, MaxMessageSizeCfg},
     maxRecipients   : {0, MaxRecipientsCfg},
     maxTransactions : {0, MaxTransactionsCfg},
     hasStorage      : {TRUE},
     tlsPolicy       : {"Optional"},
     hasTLSProvider  : {TRUE},
     extSTARTTLS     : {TRUE},
     extSIZE         : BOOLEAN,
     extHELP         : {TRUE},
     extVRFY         : {FALSE}]

(***************************************************************************)
(* The envelope builder held in Engine.envelope (nil = not present).       *)
(* mark is a ghost field: the context was cancelled while this envelope    *)
(* was in flight.                                                          *)
(***************************************************************************)
NoEnvelope == [present |-> FALSE, from |-> FALSE, rcpts |-> 0, mark |-> FALSE]

\* NewStandardEnvelopeBuilder
NewEnvelope == [present |-> TRUE, from |-> FALSE, rcpts |-> 0, mark |-> FALSE]

(***************************************************************************)
(* StandardEnvelopeBuilder (src/envelope_builder.go), driven through its   *)
(* own interface.  bld.b holds the builder's fields.  The bytes.Buffer     *)
(* b.data is its backing array (store, as long as its capacity) and its    *)
(* length (len); bytes.Buffer.Reset sets the length to 0 and keeps the     *)
(* array, and a write that does not fit allocates a new array.  bld.writers *)
(* are the envelopeDataWriter objects handed out so far: every one of them *)
(* writes into b.data, whichever DataWriter call returned it.  bld.envs    *)
(* are the envelopes Finalize returned.  An envelope's data is the slice   *)
(* b.data.Bytes() taken at Finalize: it shares the buffer's array (shared) *)
(* until the buffer moves to a new array, when own keeps what the old      *)
(* array holds.  recipients is a slice of an array that is only appended   *)
(* to behind the envelope's length, so its value is kept.  snap is a ghost: *)
(* the sender, recipients and data the envelope had when it was returned.  *)
(***************************************************************************)
\* reverse-paths and forward-paths a caller passes
Paths == {"p", "q"}

RcptPaths == {"r"}

Bytes == {"x", "y"}

\* NewStandardEnvelopeBuilder; id stands for generateEnvelopeID's fresh value
NewStandardEnvelopeBuilder(id) ==
    [id |-> id, mailFrom |-> "nil", recipients |-> <<>>, params |-> FALSE,
     store |-> <<>>, len |-> 0, dataWriter |-> 0, finalized |-> FALSE]

InitBuilder ==
    [b |-> NewStandardEnvelopeBuilder(0), writers |-> <<>>, envs |-> <<>>,
     ids |-> 0, writes |-> 0]

\* an operation's result: the new state and the error returned
Result(s, err) == [s |-> s, err |-> err]

SetMailFrom(s, path) ==
    IF s.b.finalized THEN Result(s, "EnvelopeFinalized")
    ELSE Result([s EXCEPT !.b.mailFrom = path, !.b.params = TRUE], "nil")

AddRecipient(s, path) ==
    IF s.b.finalized THEN Result(s, "EnvelopeFinalized")
    ELSE Result([s EXCEPT !.b.recipients = Append(@, path)], "nil")

DataWriter(s) ==
    IF s.b.finalized THEN Result(s, "EnvelopeFinalized")
    ELSE IF s.b.dataWriter # 0 THEN Result(s, "AlreadyOpen")
    ELSE Result([s EXCEPT !.writers = Append(@, [closed |-> FALSE]),
                          !.b.dataWriter = Len(s.writers) + 1], "nil")

\* the data an envelope shows
EnvelopeData(s, i) ==
    IF s.envs[i].shared THEN SubSeq(s.b.store, 1, s.envs[i].len) ELSE s.envs[i].own

\* bytes.Buffer.Write of one byte: in place when it fits the array, else into
\* a new, larger array; the envelopes keep the old one
BufferWrite(s, byte) ==
    IF s.b.len + 1 <= Len(s.b.store)
    THEN [s EXCEPT !.b.store[s.b.len + 1] = byte, !.b.len = @ + 1]
    ELSE LET cap == IF Len(s.b.store) = 0 THEN smallBufferSize
                    ELSE 2 * Len(s.b.store) + 1
             new == [k \in 1..cap |->
                        IF k <= s.b.len THEN s.b.store[k]
                        ELSE IF k = s.b.len + 1 THEN byte ELSE "0"]
         IN  [s EXCEPT !.b.store = new, !.b.len = @ + 1,
                       !.envs = [i \in 1..Len(s.envs) |->
                                    [s.envs[i] EXCEPT !.own = EnvelopeData(s, i),
                                                      !.shared = FALSE]]]

\* envelopeDataWriter.Write
WriterWrite(s, w, byte) ==
    IF s.writers[w].closed THEN Result(s, "WriterClosed")
    ELSE Result([BufferWrite(s, byte) EXCEPT !.writes = @ + 1], "nil")

\* envelopeDataWriter.Close
WriterClose(s, w) == Result([s EXCEPT !.writers[w].closed = TRUE], "nil")

Finalize(s) ==
    IF s.b.finalized THEN Result(s, "EnvelopeFinalized")
    ELSE IF s.b.mailFrom = "nil" THEN Result(s, "NoMailFrom")
    ELSE IF Len(s.b.recipients) = 0 THEN Result(s, "NoRecipients")
    ELSE IF s.b.dataWriter # 0 /\ ~s.writers[s.b.dataWriter].closed
    THEN Result(s, "DataWriterOpen")
    ELSE LET data == SubSeq(s.b.store, 1, s.b.len)
             env == [id |-> s.b.id, mailFrom |-> s.b.mailFrom,
                     recipients |-> s.b.recipients,
                     shared |-> TRUE, len |-> s.b.len, own |-> <<>>,
                     snap |-> <<s.b.mailFrom, s.b.recipients, data>>]
         IN  Result([s EXCEPT !.b.finalized = TRUE, !.envs = Append(@, env)], "nil")

\* StandardEnvelopeBuilder.Reset
BuilderReset(s) ==
    [s EXCEPT !.ids = @ + 1,
              !.b = [NewStandardEnvelopeBuilder(s.ids + 1) EXCEPT !.store = s.b.store]]

\* the builder's observable state, the id apart
Observable(s) == [s.b EXCEPT !.id = 0, !.store = SubSeq(s.b.store, 1, s.b.len)]

\* a writer handed out by the builder is still open
WriterOutstanding(s) == \E w \in 1..Len(s.writers) : ~s.writers[w].closed


(***************************************************************************)
(* DataLineReader (src/parser.go) and the loop of Engine.readData over the *)
(* lines of one body.  A line is the sequence of its bytes, its line feed  *)
(* included, as ReadBytes('\n') returns it.  rd.body are the lines of the  *)
(* body the client means to send; the client puts StuffLine of each on the *)
(* wire, then the terminator line.  rd.buf is readData's buffer.           *)
(***************************************************************************)
Chars == {".", "a", "\r"}

\* the byte strings of at most n bytes
RECURSIVE Strings(_)
Strings(n) ==
    IF n = 0 THEN {<<>>}
    ELSE LET shorter == Strings(n - 1)
         IN  shorter \cup {Append(t, c) : t \in shorter, c \in Chars}

Lines == {Append(t, "\n") : t \in Strings(MaxLineLen)}

RECURSIVE Bodies(_)
Bodies(n) ==
    IF n = 0 THEN {<<>>}
    ELSE LET shorter == Bodies(n - 1)
         IN  shorter \cup {Append(b, l) : b \in shorter, l \in Lines}

\* the bytes of a body: its lines one after the other
RECURSIVE Concat(_)
Concat(lines) == IF lines = <<>> THEN <<>> ELSE Head(lines) \o Concat(Tail(lines))

\* bytes.TrimSuffix
TrimSuffix(line, suffix) ==
    IF Len(line) >= Len(suffix)
         /\ SubSeq(line, Len(line) - Len(suffix) + 1, Len(line)) = suffix
    THEN SubSeq(line, 1, Len(line) - Len(suffix))
    ELSE line

IsTerminator(line) ==
    LET t == TrimSuffix(TrimSuffix(line, <<"\r", "\n">>), <<"\n">>)
    IN  Len(t) = 1 /\ t[1] = "."

\* UnstuffLine leaving the line as it is
UnstuffLineKeepingDot(line) == line

UnstuffLine(line) == IF Len(line) > 0 /\ line[1] = "." THEN Tail(line) ELSE line

StuffLine(line) == IF Len(line) > 0 /\ line[1] = "." THEN <<".">> \o line ELSE line

InitReader ==
    [body |-> <<>>, maxLine |-> 0, maxSize |-> 0, pos |-> 1, buf |-> <<>>,
     status |-> "idle"]

\* one turn of readData's loop on the line just read
readDataLine(r, line) ==
    IF IsTerminator(line) THEN [r EXCEPT !.status = "done"]
    ELSE IF r.maxLine > 0 /\ Len(line) > r.maxLine
    THEN [r EXCEPT !.status = "ErrLineTooLong", !.buf = <<>>]
    ELSE IF r.maxSize > 0 /\ Len(r.buf) + Len(line) > r.maxSize
    THEN [r EXCEPT !.status = "ErrMessageTooLarge", !.buf = <<>>]
    ELSE [r EXCEPT !.buf = @ \o UnstuffLine(line), !.pos = @ + 1]


(***************************************************************************)
(* A handler runs on a context x = [eng, obs, resp, err]: the engine's     *)
(* fields, the observations, the Response the handler returns (its code,   *)
(* and adv: the reply lists STARTTLS) and the error processOneCommand      *)
(* returns to Run.  obs.smPath (the states the     *)
(* state machine went through), obs.ioErr and obs.timedOut describe the    *)
(* step being taken.                                                       *)
(***************************************************************************)
Ctx(e, o) ==
    [eng |-> e,
     obs |-> [o EXCEPT !.smPath = <<e.sm>>, !.ioErr = FALSE, !.timedOut = "none"],
     resp |-> 0, adv |-> FALSE, err |-> "nil"]

\* StateMachine.Transition: refuse a pair outside validTransitions
Transition(x, newState) ==
    IF canTransition(x.eng.sm, newState)
    THEN [x EXCEPT !.eng.sm = newState, !.obs.smPath = Append(@, newState)]
    ELSE x

TransitionForCommand(x, verb) ==
    LET newState == nextStateForCommand(x.eng.sm, verb)
    IN  IF newState = x.eng.sm THEN x ELSE Transition(x, newState)

\* StateMachine.Reset
Reset(x) ==
    IF InTransaction(x.eng.sm) \/ x.eng.sm = "DataDone"
    THEN Transition(x, "Identified")
    ELSE x

Connect(x) == IF x.eng.sm # "Disconnected" THEN x ELSE Transition(x, "Connected")

Greet(x) == IF x.eng.sm # "Connected" THEN x ELSE Transition(x, "Greeted")

DataComplete(x) == IF x.eng.sm # "Data" THEN x ELSE Transition(x, "DataDone")

\* TLSComplete leaving the state machine where it is
TLSCompleteSkipped(x) == x

TLSComplete(x) == IF x.eng.sm # "StartTLS" THEN x ELSE Transition(x, "Greeted")

Terminate(x) == Transition(x, "Terminated")

Abort(x) == Transition(x, "Aborted")

\* Engine.resetTransaction
resetTransaction(x) == [x EXCEPT !.eng.envelope = NoEnvelope]

\* CheckErrorCount with > in place of >=
CheckErrorCountLate(count) == config.maxErrors > 0 /\ count > config.maxErrors

\* StandardLimitChecker.CheckErrorCount: TRUE = ErrTooManyErrors
CheckErrorCount(count) == config.maxErrors > 0 /\ count >= config.maxErrors

\* Engine.checkErrorLimit
checkErrorLimit(x) == CheckErrorCount(x.eng.consecutiveErrors)

(***************************************************************************)
(* Transport outcomes. A write fails with io.ErrClosedPipe ("closedpipe")  *)
(* or with another transport error ("other": a *net.OpError such as        *)
(* ECONNRESET, EPIPE or use of a closed network connection); after         *)
(* Conn.Close every write fails.  A read returns a line or fails with      *)
(* "eof" (io.EOF, io.ErrClosedPipe), "timeout" or "other".                 *)
(***************************************************************************)
WriteOutcomes == IF connClosed THEN {"closedpipe", "other"} ELSE {"ok", "closedpipe", "other"}

ReadErrors == {"eof", "timeout", "other"}

\* the error value a failed write hands back, as Run classifies it
WriteErr(w) == CASE w = "ok" -> "nil" [] w = "closedpipe" -> "io" [] OTHER -> "other"

ReadErr(r) == CASE r = "eof" -> "io" [] r = "timeout" -> "timeout" [] OTHER -> "other"

\* isIOError
isIOError(err) == err = "io"

\* the timeout test of Run and handleDATA (errors.Is DeadlineExceeded, isTimeoutError)
isTimeoutError(err) == err = "timeout"

\* Engine.writeResponse: the attempted code and what became of the write
writeResponse(x, code, w) ==
    [x EXCEPT !.obs.lastCode = code,
              !.obs.ioErr = @ \/ (w # "ok")]

(***************************************************************************)
(* The bufio.Reader of BufferedConn.  eng.buffered: the reader holds bytes *)
(* the client sent in plaintext behind a STARTTLS line (read from the      *)
(* socket together with it).  obs.plainAfterTLS: a line of such bytes was  *)
(* returned to the engine while TLS was active.  obs.dropped: such bytes    *)
(* were discarded with the old reader.  obs.bodyLeft: "pending" once       *)
(* readData has returned before it read the terminator line of a body (the *)
(* rest of the body, its terminator at least, is still to be read from the *)
(* connection), "parsed" once processOneCommand has read a line of it.     *)
(***************************************************************************)
\* Engine.readLine: the buffered bytes are served first
readLine(x) ==
    [x EXCEPT !.eng.buffered = FALSE,
              !.obs.plainAfterTLS = @ \/ (x.eng.buffered /\ x.eng.tlsActive),
              !.obs.bodyLeft = IF @ = "pending" THEN "parsed" ELSE @]

\* ResetReader keeping the old reader and what it holds
ResetReaderKeepingBuffer(x) == x

\* BufferedConn.ResetReader: a new bufio.Reader over the upgraded Conn
ResetReader(x) == [x EXCEPT !.eng.buffered = FALSE, !.obs.dropped = @ \/ x.eng.buffered]

(***************************************************************************)
(* Per-verb handlers (Engine.handleHELO ... Engine.handleSTARTTLS).  arg   *)
(* is what the parsers and the collaborators make of the command's         *)
(* argument: "ok", "syntax" (ParseHeloHostname / ParseMailPath fail),      *)
(* "oversize" (MAIL with SIZE=N, MaxMessageSize < N < 2^63), "overflow"    *)
(* (MAIL with SIZE=N, N >= 2^63), "reject" (the SenderPolicy or the        *)
(* Mailbox does not accept), "null" (MAIL or RCPT with the null path <>,   *)
(* which ParseMailPath returns with IsNull set and the SenderPolicy or the *)
(* Mailbox accepts).                                                       *)
(***************************************************************************)
Args == {"ok", "null", "syntax", "oversize", "overflow", "reject"}

\* the command carries a SIZE parameter
hasSizeParam(arg) == arg \in {"oversize", "overflow"}

\* fmt.Sscanf(sizeStr, "%d", &size) into an int64 that starts at 0: a value
\* out of the int64 range makes the scan fail and leaves size at 0
scannedSize(arg) ==
    CASE arg = "oversize" -> config.maxMessageSize + 1
      [] OTHER            -> 0

handleHELO(x, arg) ==
    IF arg = "syntax" THEN [x EXCEPT !.resp = 501]
    ELSE LET a == [x EXCEPT !.eng.clientHostname = TRUE]
             b == TransitionForCommand(a, "HELO")
             c == [b EXCEPT !.eng.state = "Identified"]
             d == resetTransaction(c)
         IN  [d EXCEPT !.resp = 250]

\* the STARTTLS line of the EHLO reply
ehloAdvertisesSTARTTLS(tlsActive) ==
    config.extSTARTTLS /\ config.tlsPolicy # "Disabled" /\ ~tlsActive

handleEHLO(x, arg) ==
    IF arg = "syntax" THEN [x EXCEPT !.resp = 501]
    ELSE LET a == [x EXCEPT !.eng.clientHostname = TRUE]
             b == TransitionForCommand(a, "EHLO")
             c == [b EXCEPT !.eng.state = "Identified"]
             d == resetTransaction(c)
         IN  [d EXCEPT !.resp = 250, !.adv = ehloAdvertisesSTARTTLS(x.eng.tlsActive)]

\* handleMAIL without the TLSPolicy check
handleMAILWithoutTLSCheck(x, arg) ==
    IF config.maxTransactions > 0 /\ x.eng.transactionCount >= config.maxTransactions
    THEN [x EXCEPT !.resp = 421]
    ELSE IF arg = "syntax" THEN [x EXCEPT !.resp = 501]
    ELSE IF config.extSIZE /\ config.maxMessageSize > 0 /\ hasSizeParam(arg)
              /\ scannedSize(arg) > config.maxMessageSize
    THEN [x EXCEPT !.resp = 552]
    ELSE IF arg = "reject" THEN [x EXCEPT !.resp = 550]
    ELSE LET a == [x EXCEPT !.eng.envelope = [NewEnvelope EXCEPT !.from = TRUE]]
             b == TransitionForCommand(a, "MAIL")
             c == [b EXCEPT !.eng.state = "MailFrom"]
         IN  [c EXCEPT !.resp = 250]

handleMAIL(x, arg) ==
    IF config.tlsPolicy = "Required" /\ ~x.eng.tlsActive THEN [x EXCEPT !.resp = 530]
    ELSE IF config.maxTransactions > 0 /\ x.eng.transactionCount >= config.maxTransactions
    THEN [x EXCEPT !.resp = 421]
    ELSE IF arg = "syntax" THEN [x EXCEPT !.resp = 501]
    ELSE IF config.extSIZE /\ config.maxMessageSize > 0 /\ hasSizeParam(arg)
              /\ scannedSize(arg) > config.maxMessageSize
    THEN [x EXCEPT !.resp = 552]
    ELSE IF arg = "reject" THEN [x EXCEPT !.resp = 550]
    ELSE LET a == [x EXCEPT !.eng.envelope = [NewEnvelope EXCEPT !.from = TRUE]]
             b == TransitionForCommand(a, "MAIL")
             c == [b EXCEPT !.eng.state = "MailFrom"]
         IN  [c EXCEPT !.resp = 250]

\* handleRCPT without the MaxRecipients check
handleRCPTWithoutLimit(x, arg) ==
    IF arg = "syntax" THEN [x EXCEPT !.resp = 501]
    ELSE IF arg = "reject" THEN [x EXCEPT !.resp = 550]
    ELSE LET a == [x EXCEPT !.eng.envelope.rcpts = @ + 1]
             b == TransitionForCommand(a, "RCPT")
             c == [b EXCEPT !.eng.state = "RcptTo"]
         IN  [c EXCEPT !.resp = 250]

\* handleRCPT adding the recipient the Mailbox did not accept
handleRCPTAddingRejected(x, arg) ==
    IF arg = "syntax" THEN [x EXCEPT !.resp = 501]
    ELSE IF config.maxRecipients > 0 /\ x.eng.envelope.rcpts >= config.maxRecipients
    THEN [x EXCEPT !.resp = 452]
    ELSE IF arg = "reject" THEN [x EXCEPT !.eng.envelope.rcpts = @ + 1, !.resp = 550]
    ELSE LET a == [x EXCEPT !.eng.envelope.rcpts = @ + 1]
             b == TransitionForCommand(a, "RCPT")
             c == [b EXCEPT !.eng.state = "RcptTo"]
         IN  [c EXCEPT !.resp = 250]

handleRCPT(x, arg) ==
    IF arg = "syntax" THEN [x EXCEPT !.resp = 501]
    ELSE IF config.maxRecipients > 0 /\ x.eng.envelope.rcpts >= config.maxRecipients
    THEN [x EXCEPT !.resp = 452]
    ELSE IF arg = "reject" THEN [x EXCEPT !.resp = 550]
    ELSE LET a == [x EXCEPT !.eng.envelope.rcpts = @ + 1]
             b == TransitionForCommand(a, "RCPT")
             c == [b EXCEPT !.eng.state = "RcptTo"]
         IN  [c EXCEPT !.resp = 250]

\* handleRSET without resetTransaction
handleRSETKeepingEnvelope(x) ==
    LET b == Reset(x)
        c == IF b.eng.sm \in {"Greeted", "Identified"}
             THEN [b EXCEPT !.eng.state = b.eng.sm]
             ELSE [b EXCEPT !.eng.state = "Identified"]
    IN  [c EXCEPT !.resp = 250]

handleRSET(x) ==
    LET a == resetTransaction(x)
        b == Reset(a)
        c == IF b.eng.sm \in {"Greeted", "Identified"}
             THEN [b EXCEPT !.eng.state = b.eng.sm]
             ELSE [b EXCEPT !.eng.state = "Identified"]
    IN  [c EXCEPT !.resp = 250]

handleNOOP(x) == [x EXCEPT !.resp = 250]

handleQUIT(x) ==
    LET a == TransitionForCommand(x, "QUIT")
        b == Terminate(a)
    IN  [b EXCEPT !.resp = 221, !.obs.cause = "quit"]

handleVRFY(x) == IF ~config.extVRFY THEN [x EXCEPT !.resp = 502] ELSE [x EXCEPT !.resp = 252]

\* the STARTTLS entry of the HELP reply
helpAdvertisesSTARTTLS(tlsActive) ==
    config.extSTARTTLS /\ config.tlsPolicy # "Disabled" /\ config.hasTLSProvider /\ ~tlsActive

handleHELP(x) ==
    IF ~config.extHELP THEN [x EXCEPT !.resp = 502]
    ELSE [x EXCEPT !.resp = 214, !.adv = helpAdvertisesSTARTTLS(x.eng.tlsActive)]

\* handleSTARTTLS without the test of TLSActive
handleSTARTTLSWhileActive(x) ==
    IF config.tlsPolicy = "Disabled" THEN [x EXCEPT !.resp = 502]
    ELSE IF ~config.hasTLSProvider THEN [x EXCEPT !.resp = 454]
    ELSE LET a == TransitionForCommand(x, "STARTTLS")
             b == [a EXCEPT !.eng.state = "StartTLS"]
         IN  [b EXCEPT !.resp = 220]

handleSTARTTLS(x) ==
    IF config.tlsPolicy = "Disabled" THEN [x EXCEPT !.resp = 502]
    ELSE IF x.eng.tlsActive THEN [x EXCEPT !.resp = 503]
    ELSE IF ~config.hasTLSProvider THEN [x EXCEPT !.resp = 454]
    ELSE LET a == TransitionForCommand(x, "STARTTLS")
             b == [a EXCEPT !.eng.state = "StartTLS"]
         IN  [b EXCEPT !.resp = 220]

\* Engine.handleCommand, DATA apart (handleDATA blocks on the body: see below)
handleCommand(x, verb, arg) ==
    CASE verb = "HELO"     -> handleHELO(x, arg)
      [] verb = "EHLO"     -> handleEHLO(x, arg)
      [] verb = "MAIL"     -> handleMAIL(x, arg)
      [] verb = "RCPT"     -> handleRCPT(x, arg)
      [] verb = "RSET"     -> handleRSET(x)
      [] verb = "NOOP"     -> handleNOOP(x)
      [] verb = "QUIT"     -> handleQUIT(x)
      [] verb = "VRFY"     -> handleVRFY(x)
      [] verb = "HELP"     -> handleHELP(x)
      [] verb = "STARTTLS" -> handleSTARTTLS(x)
      [] OTHER             -> [x EXCEPT !.resp = 502]

(***************************************************************************)
(* Engine.handleDisconnect: the closed flag makes it fire at most once,    *)
(* and not at all once Close has set the flag.                             *)
(***************************************************************************)
handleDisconnect(x, reason) ==
    IF x.eng.closed THEN x
    ELSE [x EXCEPT !.eng.closed = TRUE, !.obs.disconnects = Append(@, reason)]

(***************************************************************************)
(* Engine.processOneCommand, after readLine has returned a line.           *)
(***************************************************************************)
\* ParseCommand failed
processParseError(x, w) ==
    LET a == [x EXCEPT !.eng.consecutiveErrors = @ + 1]
    IN  IF checkErrorLimit(a)
        THEN LET b == writeResponse(a, 421, w)
                 c == Abort(b)
             IN  [c EXCEPT !.err = "other", !.obs.lastOp = "budget", !.obs.cause = "budget"]
        ELSE LET b == writeResponse(a, 500, w)
             IN  [b EXCEPT !.err = "other", !.obs.lastOp = "parse"]

\* Hooks.OnCommand returned an error
processVeto(x, verb, w) ==
    LET b == writeResponse(x, 554, w)
    IN  [b EXCEPT !.err = "other", !.obs.lastOp = "veto"]

\* processSequenceError without the count
processSequenceErrorUncounted(x, verb, w) ==
    LET b == writeResponse(x, 503, w)
    IN  [b EXCEPT !.obs.lastOp = "sequence"]

\* the verb is not allowed in the state machine's state
processSequenceError(x, verb, w) ==
    LET a == [x EXCEPT !.eng.consecutiveErrors = @ + 1]
        b == writeResponse(a, 503, w)
    IN  [b EXCEPT !.obs.lastOp = "sequence"]

\* write the handler's Response; zero the error count on a positive reply
finishCommand(x, w) ==
    LET b == writeResponse(x, x.resp, w)
    IN  IF w # "ok" THEN [b EXCEPT !.err = WriteErr(w)]
        ELSE IF IsPositive(x.resp) THEN [b EXCEPT !.eng.consecutiveErrors = 0]
        ELSE b

processCommand(x, verb, arg, w) ==
    LET a == [x EXCEPT !.obs.lastOp = "cmd"]
    IN  finishCommand(handleCommand(a, verb, arg), w)

(***************************************************************************)
(* Engine.handleDATA.                                                      *)
(***************************************************************************)
\* every failure path: sm.Reset(); state = Identified; envelope = nil
dataAbort(x, code, op) ==
    LET a == Reset(x)
    IN  [a EXCEPT !.eng.state = "Identified", !.eng.envelope = NoEnvelope,
                  !.resp = code, !.obs.lastOp = op]

\* the transition to Data and the 354 reply
dataStart(x, w1) ==
    LET a == TransitionForCommand(x, "DATA")
        b == [a EXCEPT !.eng.state = "Data", !.obs.lastOp = "data_start"]
        c == writeResponse(b, 354, w1)
    IN  IF w1 # "ok"
        THEN [Abort(c) EXCEPT !.resp = 0, !.obs.lastOp = "data_354_fail", !.obs.cause = "write354"]
        ELSE c

\* Storage.Store returned an error
dataStoreFailed(x) == dataAbort(x, 451, "data_fail_store")

\* the envelope is committed: stats, Data -> DataDone -> Identified, on_data_end, 250
dataCommit(x) ==
    LET a == [x EXCEPT !.eng.transactionCount = @ + 1]
        b == Reset(DataComplete(a))
    IN  [b EXCEPT !.eng.state = "Identified", !.eng.envelope = NoEnvelope,
                  !.obs.dataEnds = @ + 1,
                  !.obs.markDataEnd = @ \/ x.eng.envelope.mark,
                  !.resp = 250, !.obs.lastOp = "data_ok"]

\* dataStore with Store's error ignored
dataStoreIgnoringError(x, s) ==
    IF config.hasStorage
    THEN LET a == [x EXCEPT !.obs.storeCalls = @ + 1,
                            !.obs.markStored = @ \/ x.eng.envelope.mark]
         IN  IF s # "ok" THEN dataCommit(a)
             ELSE dataCommit([a EXCEPT !.obs.stored = @ + 1])
    ELSE dataCommit(x)

\* the Storage.Store call and what follows it; s is Store's outcome
dataStore(x, s) ==
    IF config.hasStorage
    THEN LET a == [x EXCEPT !.obs.storeCalls = @ + 1,
                            !.obs.markStored = @ \/ x.eng.envelope.mark]
         IN  IF s # "ok" THEN dataStoreFailed(a)
             ELSE dataCommit([a EXCEPT !.obs.stored = @ + 1])
    ELSE dataCommit(x)

\* after readData returned the body: size check, writer, finalize, store.
\* b is what the envelope builder does: "ok", or the step that fails
BuilderOutcomes == {"ok", "open", "write", "short", "close", "finalize"}

\* obs.dataLen: the length of the data of the envelope Finalize returned
dataFinish(x, len, b, s) ==
    IF config.maxMessageSize > 0 /\ len > config.maxMessageSize
    THEN dataAbort(x, 552, "data_fail_size")
    ELSE IF b # "ok" THEN dataAbort(x, 451, "data_fail_builder")
    ELSE dataStore([x EXCEPT !.obs.dataLen = len], s)

\* readData without its size check
readDataUnlimited(len) == FALSE

\* readData: the buffer and the line together exceed MaxMessageSize
\* (ErrMessageTooLarge)
readDataTooLarge(len) == config.maxMessageSize > 0 /\ len > config.maxMessageSize

\* readData returned before the terminator line: it reads no further line
readDataReturnedEarly(x) == [x EXCEPT !.obs.bodyLeft = "pending"]

\* readData returned an error
dataReadFailed(x, err) ==
    IF isTimeoutError(err) THEN dataAbort(x, 451, "data_fail_timeout")
    ELSE dataAbort(x, 451, "data_fail_read")

(***************************************************************************)
(* Initial state: NewEngineWithConn.                                       *)
(***************************************************************************)
InitEngine ==
    [sm |-> "Disconnected", state |-> "Disconnected", envelope |-> NoEnvelope,
     clientHostname |-> FALSE, tlsActive |-> FALSE, consecutiveErrors |-> 0,
     closed |-> FALSE, transactionCount |-> 0, buffered |-> FALSE]

\* nothing observed yet
InitObs ==
    [connects |-> 0, disconnects |-> <<>>, dataEnds |-> 0, storeCalls |-> 0,
     stored |-> 0, lastOp |-> "none", lastCode |-> 0,
     smPath |-> <<"Disconnected">>, ioErr |-> FALSE, timedOut |-> "none",
     cause |-> "none", markStored |-> FALSE, markDataEnd |-> FALSE,
     plainAfterTLS |-> FALSE, dropped |-> FALSE, dataLen |-> 0, bodyLeft |-> "none",
     handshakes |-> 0]

Init ==
    /\ config \in Configs
    /\ pc = "new"
    /\ eng = InitEngine
    /\ obs = InitObs
    /\ body = 0
    /\ ctxDone = FALSE
    /\ connClosed = FALSE
    /\ closePc = "idle"
    /\ closeCan = FALSE
    /\ bld = InitBuilder
    /\ rd = InitReader
    /\ lk = InitLookup

(***************************************************************************)
(* The session task.  Every step of it ends in Finish: the engine's fields *)
(* and the observations are stored, and a write of sm.state by Close that  *)
(* raced with a transition of this step may be overwritten by it (both     *)
(* tasks write sm.state without synchronisation).                          *)
(***************************************************************************)
Finish(x, next, len) ==
    /\ eng' = x.eng
    /\ obs' = x.obs
    /\ pc' = next
    /\ body' = len
    /\ closePc' \in IF closePc = "abortW" /\ closeCan /\ x.eng.sm # eng.sm
                    THEN {"abortW", "conn"}
                    ELSE {closePc}
    /\ UNCHANGED <<config, ctxDone, connClosed, closeCan, bld, rd, lk>>

\* Run's handling of what processOneCommand returned
AfterCommand(x) ==
    IF x.err = "nil" THEN Finish(x, "loop", 0)
    ELSE IF IsTerminal(x.eng.sm) THEN Finish(handleDisconnect(x, "Normal"), "done", 0)
    ELSE IF isTimeoutError(x.err) THEN Finish(handleDisconnect(x, "Timeout"), "done", 0)
    ELSE IF isIOError(x.err) THEN Finish(handleDisconnect(x, "Error"), "done", 0)
    ELSE Finish(x, "loop", 0)

\* Run: sm.Connect(), Hooks.OnConnect
RunStart ==
    /\ pc = "new"
    /\ LET x == Ctx(eng, obs)
       IN  IF x.eng.sm # "Disconnected"
           THEN Finish(x, "done", 0)
           ELSE Finish([Connect(x) EXCEPT !.obs.connects = @ + 1], "greeting", 0)

\* Run: write the greeting, sm.Greet()
SendGreeting ==
    /\ pc = "greeting"
    /\ \E w \in WriteOutcomes :
         LET x == [writeResponse(Ctx(eng, obs), 220, w) EXCEPT !.obs.lastOp = "greeting"]
         IN  IF w # "ok" THEN Finish(handleDisconnect(x, "Error"), "done", 0)
             ELSE IF x.eng.sm # "Connected" THEN Finish(x, "done", 0)
             ELSE Finish([Greet(x) EXCEPT !.eng.state = "Greeted"], "loop", 0)

\* Run: the top of the command loop (the observations of the last command
\* are forgotten here: lastOp and lastCode describe the command just processed)
LoopTop ==
    /\ pc = "loop"
    /\ LET x == [Ctx(eng, obs) EXCEPT !.obs.lastOp = "none", !.obs.lastCode = 0,
                                      !.obs.dataLen = 0]
       IN  IF ctxDone THEN Finish(handleDisconnect(x, "Timeout"), "done", 0)
           ELSE IF IsTerminal(x.eng.sm) THEN Finish(handleDisconnect(x, "Normal"), "done", 0)
           ELSE IF x.eng.state = "StartTLS" THEN Finish(x, "tls", 0)
           ELSE Finish(x, "read", 0)

\* processOneCommand: readLine fails
ReadError ==
    /\ pc = "read"
    /\ \E r \in ReadErrors :
         LET x == Ctx(eng, obs)
             a == [x EXCEPT !.err = ReadErr(r), !.obs.lastOp = "read_err",
                            !.obs.ioErr = @ \/ r # "timeout",
                            !.obs.timedOut = IF r = "timeout" THEN "cmd" ELSE @]
         IN  AfterCommand(a)

\* processOneCommand: the line does not parse
ReadGarbage ==
    /\ pc = "read"
    /\ eng.consecutiveErrors < MaxErrorCount
    /\ \E w \in WriteOutcomes : AfterCommand(processParseError(readLine(Ctx(eng, obs)), w))

\* processOneCommand: Hooks.OnCommand vetoes the command
ReadVetoed ==
    /\ pc = "read"
    /\ \E verb \in Verbs, w \in WriteOutcomes : AfterCommand(processVeto(readLine(Ctx(eng, obs)), verb, w))

\* processOneCommand: the verb is not allowed in the current state
ReadRejected ==
    /\ pc = "read"
    /\ eng.consecutiveErrors < MaxErrorCount
    /\ \E verb \in Verbs, w \in WriteOutcomes :
         /\ ~IsCommandAllowed(eng.sm, verb)
         /\ AfterCommand(processSequenceError(readLine(Ctx(eng, obs)), verb, w))

\* what the client sends: no new MAIL after MaxMessages messages, no more
\* than MaxRcpts recipients
ClientSends(verb, arg) ==
    /\ verb = "MAIL" /\ arg \in {"ok", "null", "oversize", "overflow"} =>
         eng.transactionCount < MaxMessages
    /\ verb = "RCPT" /\ arg \in {"ok", "null"} => eng.envelope.rcpts < MaxRcpts
    /\ arg = "null" => verb \in {"MAIL", "RCPT"}
    /\ hasSizeParam(arg) => verb = "MAIL"
    /\ arg = "reject" => verb \in {"MAIL", "RCPT"}
    /\ arg = "syntax" => verb \in {"HELO", "EHLO", "MAIL", "RCPT"}

\* processOneCommand: a command other than DATA is dispatched.  p: the client
\* sent more plaintext behind a STARTTLS line, and the read that returned the
\* line left it in the reader's buffer
ReadCommand ==
    /\ pc = "read"
    /\ \E verb \in Verbs \ {"DATA"}, arg \in Args, w \in WriteOutcomes, p \in BOOLEAN :
         /\ IsCommandAllowed(eng.sm, verb)
         /\ ClientSends(verb, arg)
         /\ p => (verb = "STARTTLS" /\ ~eng.tlsActive)
         /\ LET x == [readLine(Ctx(eng, obs)) EXCEPT !.eng.buffered = p]
            IN  AfterCommand(processCommand(x, verb, arg, w))

\* processOneCommand: DATA is dispatched; handleDATA writes 354.  When that
\* write fails handleDATA aborts and returns an empty Response, which
\* processOneCommand writes (w2)
ReadDATA ==
    /\ pc = "read"
    /\ IsCommandAllowed(eng.sm, "DATA")
    /\ \E w1 \in WriteOutcomes, w2 \in WriteOutcomes :
         LET x == dataStart(readLine(Ctx(eng, obs)), w1)
         IN  IF w1 = "ok" THEN Finish(x, "data", 0)
             ELSE AfterCommand(finishCommand(x, w2))

\* readData: the cancellation check before each body line
DataCheckCtx ==
    /\ pc = "data"
    /\ IF ctxDone
       THEN \E w \in WriteOutcomes :
              AfterCommand(finishCommand(
                  dataAbort(readDataReturnedEarly(Ctx(eng, obs)), 451, "data_fail_cancel"), w))
       ELSE Finish(Ctx(eng, obs), "dataread", body)

\* readData: reading a body line fails
DataReadError ==
    /\ pc = "dataread"
    /\ \E r \in ReadErrors, w \in WriteOutcomes :
         LET x == Ctx(eng, obs)
             a == [x EXCEPT !.obs.timedOut = IF r = "timeout" THEN "data" ELSE @]
         IN  AfterCommand(finishCommand(dataReadFailed(a, ReadErr(r)), w))

\* readData: a body line of one byte; ErrMessageTooLarge when it does not fit
DataReadLine ==
    /\ pc = "dataread"
    /\ body < MaxBody
    /\ IF readDataTooLarge(body + 1)
       THEN \E w \in WriteOutcomes :
              AfterCommand(finishCommand(
                  dataAbort(readDataReturnedEarly(Ctx(eng, obs)), 451, "data_fail_toolarge"), w))
       ELSE Finish(Ctx(eng, obs), "data", body + 1)

\* readData: the terminator line; the rest of handleDATA
DataReadTerminator ==
    /\ pc = "dataread"
    /\ \E b \in BuilderOutcomes, s \in {"ok", "fail"}, w \in WriteOutcomes :
         AfterCommand(finishCommand(dataFinish(Ctx(eng, obs), body, b, s), w))

\* Run: performTLSUpgrade; t is what GetConfig and the handshake do.
\* obs.handshakes: the handshakes that succeeded
TLSUpgrade ==
    /\ pc = "tls"
    /\ obs.handshakes < MaxHandshakes
    /\ \E t \in {"ok", "fail", "timeout"} :
         LET x == Ctx(eng, obs)
         IN  IF t # "ok"
             THEN Finish(handleDisconnect(
                           [x EXCEPT !.obs.lastOp = "tls_fail",
                                     !.obs.timedOut = IF t = "timeout" THEN "tls" ELSE @],
                           "TLSFailure"), "done", 0)
             ELSE LET a == ResetReader([x EXCEPT !.eng.tlsActive = TRUE,
                                                 !.obs.handshakes = @ + 1])
                      b == TLSComplete(a)
                      c == resetTransaction([b EXCEPT !.eng.state = "Greeted"])
                  IN  Finish([c EXCEPT !.eng.clientHostname = FALSE, !.obs.lastOp = "tls_ok"],
                             "loop", 0)

(***************************************************************************)
(* Engine.Close, called from another task: the closed flag under the       *)
(* mutex, then sm.Abort() (an unsynchronised read and write of sm.state),  *)
(* then conn.Close().                                                      *)
(***************************************************************************)
CloseLock ==
    /\ closePc = "idle"
    /\ eng' = [eng EXCEPT !.closed = TRUE]
    /\ closePc' = "abort"
    /\ UNCHANGED <<config, pc, obs, body, ctxDone, connClosed, closeCan, bld, rd, lk>>

CloseAbortCheck ==
    /\ closePc = "abort"
    /\ closeCan' = canTransition(eng.sm, "Aborted")
    /\ closePc' = "abortW"
    /\ UNCHANGED <<config, pc, eng, obs, body, ctxDone, connClosed, bld, rd, lk>>

CloseAbortWrite ==
    /\ closePc = "abortW"
    /\ IF closeCan
       THEN /\ eng' = [eng EXCEPT !.sm = "Aborted"]
            /\ obs' = [obs EXCEPT !.smPath = <<eng.sm, "Aborted">>]
       ELSE UNCHANGED <<eng, obs>>
    /\ closePc' = "conn"
    /\ UNCHANGED <<config, pc, body, ctxDone, connClosed, closeCan, bld, rd, lk>>

CloseConn ==
    /\ closePc = "conn"
    /\ connClosed' = TRUE
    /\ closePc' = "closed"
    /\ UNCHANGED <<config, pc, eng, obs, body, ctxDone, closeCan, bld, rd, lk>>

(***************************************************************************)
(* The caller cancels Run's context while the session runs.                *)
(***************************************************************************)
Cancel ==
    /\ ~ctxDone
    /\ pc \notin {"new", "done"}
    /\ ctxDone' = TRUE
    /\ eng' = [eng EXCEPT !.envelope.mark = eng.envelope.present]
    /\ UNCHANGED <<config, pc, obs, body, connClosed, closePc, closeCan, bld, rd, lk>>

Next ==
    \/ RunStart
    \/ SendGreeting
    \/ LoopTop
    \/ ReadError
    \/ ReadGarbage
    \/ ReadVetoed
    \/ ReadRejected
    \/ ReadCommand
    \/ ReadDATA
    \/ DataCheckCtx
    \/ DataReadError
    \/ DataReadLine
    \/ DataReadTerminator
    \/ TLSUpgrade
    \/ CloseLock
    \/ CloseAbortCheck
    \/ CloseAbortWrite
    \/ CloseConn
    \/ Cancel

Spec == Init /\ [][Next]_vars

(***************************************************************************)
(* The session task alone (no Close from another task, no cancellation),   *)
(* under every TLS set-up.                                                 *)
(***************************************************************************)
InitTLS ==
    /\ config \in ConfigsTLS
    /\ pc = "new"
    /\ eng = InitEngine
    /\ obs = InitObs
    /\ body = 0
    /\ ctxDone = FALSE
    /\ connClosed = FALSE
    /\ closePc = "idle"
    /\ closeCan = FALSE
    /\ bld = InitBuilder
    /\ rd = InitReader
    /\ lk = InitLookup

NextSession ==
    \/ RunStart
    \/ SendGreeting
    \/ LoopTop
    \/ ReadError
    \/ ReadGarbage
    \/ ReadVetoed
    \/ ReadRejected
    \/ ReadCommand
    \/ ReadDATA
    \/ DataCheckCtx
    \/ DataReadError
    \/ DataReadLine
    \/ DataReadTerminator
    \/ TLSUpgrade

SpecTLS == InitTLS /\ [][NextSession]_vars

(***************************************************************************)
(* The session task alone, under every set-up of the limits.               *)
(***************************************************************************)
InitLimits ==
    /\ config \in ConfigsLimits
    /\ pc = "new"
    /\ eng = InitEngine
    /\ obs = InitObs
    /\ body = 0
    /\ ctxDone = FALSE
    /\ connClosed = FALSE
    /\ closePc = "idle"
    /\ closeCan = FALSE
    /\ bld = InitBuilder
    /\ rd = InitReader
    /\ lk = InitLookup

SpecLimits == InitLimits /\ [][NextSession]_vars

(***************************************************************************)
(* The envelope builder alone: a caller applies its operations in any      *)
(* order, no session running.                                              *)
(***************************************************************************)
Apply(r) ==
    /\ bld' = r.s
    /\ UNCHANGED <<config, pc, eng, obs, body, ctxDone, connClosed, closePc, closeCan, rd, lk>>

BuilderSetMailFrom ==
    /\ pc = "new"
    /\ \E path \in Paths : Apply(SetMailFrom(bld, path))

BuilderAddRecipient ==
    /\ pc = "new"
    /\ Len(bld.b.recipients) < MaxBuilderRcpts
    /\ \E path \in RcptPaths : Apply(AddRecipient(bld, path))

BuilderDataWriter ==
    /\ pc = "new"
    /\ Apply(DataWriter(bld))

BuilderWrite ==
    /\ pc = "new"
    /\ bld.writes < MaxWrites
    /\ \E w \in 1..Len(bld.writers), byte \in Bytes : Apply(WriterWrite(bld, w, byte))

BuilderClose ==
    /\ pc = "new"
    /\ \E w \in 1..Len(bld.writers) : Apply(WriterClose(bld, w))

BuilderFinalize ==
    /\ pc = "new"
    /\ Apply(Finalize(bld))

BuilderResets ==
    /\ pc = "new"
    /\ bld.ids < MaxResets
    /\ Apply(Result(BuilderReset(bld), "nil"))

NextBuilder ==
    \/ BuilderSetMailFrom
    \/ BuilderAddRecipient
    \/ BuilderDataWriter
    \/ BuilderWrite
    \/ BuilderClose
    \/ BuilderFinalize
    \/ BuilderResets

InitBuilderAlone ==
    /\ config \in {c \in Configs : c.hasStorage /\ c.maxErrors = 0}
    /\ pc = "new"
    /\ eng = InitEngine
    /\ obs = InitObs
    /\ body = 0
    /\ ctxDone = FALSE
    /\ connClosed = FALSE
    /\ closePc = "idle"
    /\ closeCan = FALSE
    /\ bld = InitBuilder
    /\ rd = InitReader
    /\ lk = InitLookup

SpecBuilder == InitBuilderAlone /\ [][NextBuilder]_vars

(***************************************************************************)
(* readData alone: a client sends a body dot-stuffed, line by line, then   *)
(* the terminator line.                                                    *)
(***************************************************************************)
InitData ==
    /\ config \in {c \in Configs : c.hasStorage /\ c.maxErrors = 0}
    /\ pc = "new"
    /\ eng = InitEngine
    /\ obs = InitObs
    /\ body = 0
    /\ ctxDone = FALSE
    /\ connClosed = FALSE
    /\ closePc = "idle"
    /\ closeCan = FALSE
    /\ bld = InitBuilder
    /\ \E b \in Bodies(MaxLines), ml \in {0, LineLimitCfg}, ms \in {0, SizeLimitCfg} :
         rd = [InitReader EXCEPT !.body = b, !.maxLine = ml, !.maxSize = ms,
                                 !.status = "reading"]
    /\ lk = InitLookup

\* the client sends the next line of the body
DataLineSent ==
    /\ rd.status = "reading"
    /\ rd.pos <= Len(rd.body)
    /\ rd' = readDataLine(rd, StuffLine(rd.body[rd.pos]))
    /\ UNCHANGED <<config, pc, eng, obs, body, ctxDone, connClosed, closePc, closeCan, bld, lk>>

\* the client sends the terminator line
DataTerminatorSent ==
    /\ rd.status = "reading"
    /\ rd.pos > Len(rd.body)
    /\ \E t \in {<<".", "\r", "\n">>, <<".", "\n">>} : rd' = readDataLine(rd, t)
    /\ UNCHANGED <<config, pc, eng, obs, body, ctxDone, connClosed, closePc, closeCan, bld, lk>>

NextData ==
    \/ DataLineSent
    \/ DataTerminatorSent

SpecData == InitData /\ [][NextData]_vars

(***************************************************************************)
(* The two command tables alone: a caller asks IsCommandAllowed and        *)
(* IsStateValidForCommand about one state and one verb (CmdUnknown         *)
(* included), in either order.                                             *)
(***************************************************************************)
InitTables ==
    /\ config \in {c \in Configs : c.hasStorage /\ c.maxErrors = 0}
    /\ pc = "new"
    /\ eng = InitEngine
    /\ obs = InitObs
    /\ body = 0
    /\ ctxDone = FALSE
    /\ connClosed = FALSE
    /\ closePc = "idle"
    /\ closeCan = FALSE
    /\ bld = InitBuilder
    /\ rd = InitReader
    /\ \E s \in States, verb \in Verbs \cup {"UNKNOWN"} :
         lk = [InitLookup EXCEPT !.state = s, !.verb = verb]

AskIsCommandAllowed ==
    /\ lk.allowed = "unasked"
    /\ lk' = [lk EXCEPT !.allowed = YesNo(IsCommandAllowed(lk.state, lk.verb))]
    /\ UNCHANGED <<config, pc, eng, obs, body, ctxDone, connClosed, closePc, closeCan, bld, rd>>

AskIsStateValidForCommand ==
    /\ lk.valid = "unasked"
    /\ lk' = [lk EXCEPT !.valid = YesNo(IsStateValidForCommand(lk.state, lk.verb))]
    /\ UNCHANGED <<config, pc, eng, obs, body, ctxDone, connClosed, closePc, closeCan, bld, rd>>

NextTables ==
    \/ AskIsCommandAllowed
    \/ AskIsStateValidForCommand

SpecTables == InitTables /\ [][NextTables]_vars

(***************************************************************************)
(* Properties.                                                             *)
(***************************************************************************)
DataFailOps ==
    {"data_fail_read", "data_fail_timeout", "data_fail_cancel", "data_fail_toolarge",
     "data_fail_size", "data_fail_builder", "data_fail_store"}

\* C1: (replies written, Close() not called) every failure path of the DATA
\* handler drops the envelope and leaves the state machine in Identified, so
\* that the commands allowed in Identified are dispatched afterwards.
C1_DataFailureLeavesIdentified ==
    (obs.lastOp \in DataFailOps /\ ~obs.ioErr /\ closePc = "idle") =>
        /\ ~eng.envelope.present
        /\ eng.sm = "Identified"
        /\ \A verb \in {"MAIL", "RSET", "NOOP", "QUIT"} : IsCommandAllowed(eng.sm, verb)

\* C2: (replies written, Close() not called) with MaxErrors > 0, an error
\* reply (500 or 503) that brings consecutive_errors to MaxErrors or more is a
\* 421 with the state machine aborted, and no command is read while
\* consecutive_errors >= MaxErrors.
C2_ErrorBudgetEnforced ==
    (config.maxErrors > 0 /\ ~obs.ioErr /\ closePc = "idle") =>
        /\ (obs.lastOp \in {"parse", "sequence", "budget"}
              /\ eng.consecutiveErrors >= config.maxErrors)
             => (obs.lastCode = 421 /\ IsTerminal(eng.sm))
        /\ pc = "read" => eng.consecutiveErrors < config.maxErrors

\* C3: when Run has returned (no transport error in its last step, the failed
\* 354 write apart), on_disconnect has fired exactly once, with the reason of
\* the cause: Normal after QUIT, ResourceLimit after the error budget was
\* exhausted, Error after a failed 354 write.
C3_DisconnectExactlyOnce ==
    (pc = "done" /\ (obs.ioErr => obs.cause = "write354")) =>
        /\ Len(obs.disconnects) = 1
        /\ obs.cause = "quit" => obs.disconnects[1] = "Normal"
        /\ obs.cause = "budget" => obs.disconnects[1] = "ResourceLimit"
        /\ obs.cause = "write354" => obs.disconnects[1] = "Error"

\* C4: once Close() has returned, whenever it was called, the closed flag is
\* set, the connection is closed and the state machine is (and stays) Aborted.
C4_CloseAborts ==
    closePc = "closed" => (eng.closed /\ connClosed /\ eng.sm = "Aborted")

\* C5: with a Storage configured, on_data_end and the statistics never run
\* ahead of the successful Storage.Store calls; the 250 "accepted" reply
\* follows a successful store of that envelope; a failed store is answered
\* 451 with the envelope dropped, and no on_data_end or statistics increment.
C5_StoreBeforeAccept ==
    config.hasStorage =>
        /\ obs.dataEnds = obs.stored
        /\ eng.transactionCount = obs.stored
        /\ obs.lastOp = "data_ok" =>
             (obs.lastCode = 250 /\ obs.stored >= 1 /\ obs.storeCalls >= 1)
        /\ obs.lastOp = "data_fail_store" =>
             (obs.lastCode = 451 /\ ~eng.envelope.present /\ obs.storeCalls > obs.stored)
        /\ obs.storeCalls > obs.stored => obs.lastOp # "data_ok"

\* a DATA transaction whose Storage.Store failed
C5_Witness ==
    /\ config.hasStorage
    /\ obs.lastOp = "data_fail_store"
    /\ obs.lastCode = 451
    /\ obs.storeCalls = 1

\* C6: every change of the state machine's state is a pair of the transition
\* table.
C6_TransitionsInTable ==
    \A i \in 1..(Len(obs.smPath) - 1) : obs.smPath[i + 1] \in validTransitions(obs.smPath[i])

C8_IOErrorEndsLoop ==
    (closePc = "idle" /\ obs.ioErr) => (pc = "done" /\ obs.disconnects = <<"Error">>)

\* C9: (Close() not called) after a command-read, body-read or TLS-handshake
\* timeout Run has returned with on_disconnect(Timeout); a body-read timeout
\* was answered 451 first.
C9_TimeoutDisconnects ==
    (closePc = "idle" /\ obs.timedOut # "none") =>
        /\ pc = "done"
        /\ obs.disconnects = <<"Timeout">>
        /\ obs.timedOut = "data" => obs.lastCode = 451

\* C10: (Storage configured, replies written, Close() not called) the envelope
\* in flight when the context was cancelled is never handed to Storage.Store
\* and never reported to on_data_end.
C10_CancelCommitsNothing ==
    (ctxDone /\ config.hasStorage /\ ~obs.ioErr /\ closePc = "idle") =>
        (~obs.markStored /\ ~obs.markDataEnd)

C13_PositiveReplyZeroesErrors ==
    (IsPositive(obs.lastCode) /\ ~obs.ioErr) => eng.consecutiveErrors = 0

\* C14: where EHLO and HELP are both answered (250 and 214), the HELP reply
\* lists STARTTLS exactly when the EHLO reply does.
C14_HelpMatchesEhlo ==
    pc = "read" =>
        LET e == handleEHLO(Ctx(eng, obs), "ok")
            h == handleHELP(Ctx(eng, obs))
        IN  (IsCommandAllowed(eng.sm, "EHLO") /\ IsCommandAllowed(eng.sm, "HELP")
               /\ e.resp = 250 /\ h.resp = 214)
              => (e.adv <=> h.adv)

\* C15: with TLSPolicy Required, while TLS is not active MAIL is answered 530,
\* the session is not in MailFrom, RcptTo or Data, no envelope exists and
\* nothing was stored; once TLS is active (STARTTLS, then a new EHLO) MAIL is
\* answered 250.
C15_TLSRequiredEnforced ==
    config.tlsPolicy = "Required" =>
        /\ ~eng.tlsActive =>
             /\ eng.sm \notin {"MailFrom", "RcptTo", "Data"}
             /\ eng.state \notin {"MailFrom", "RcptTo", "Data"}
             /\ ~eng.envelope.present
             /\ obs.storeCalls = 0 /\ obs.dataEnds = 0
        /\ (pc = "read" /\ IsCommandAllowed(eng.sm, "MAIL")) =>
             handleMAIL(Ctx(eng, obs), "ok").resp = IF eng.tlsActive THEN 250 ELSE 530

\* TLS required, upgraded, and a MAIL accepted afterwards
C15_Witness ==
    /\ config.tlsPolicy = "Required"
    /\ eng.tlsActive
    /\ eng.sm = "MailFrom"
    /\ obs.lastCode = 250

\* C16: after a successful TLS upgrade client_hostname is cleared, no envelope
\* exists, tls_active is true and the state is Greeted; until a new EHLO, MAIL
\* is not allowed and is answered 503, and EHLO is answered 250 without
\* STARTTLS in its reply.
C16_PostSTARTTLSReset ==
    /\ obs.lastOp = "tls_ok" =>
         /\ ~eng.clientHostname
         /\ ~eng.envelope.present
         /\ eng.tlsActive
         /\ eng.sm = "Greeted"
         /\ eng.state = "Greeted"
    /\ (pc = "read" /\ eng.tlsActive /\ ~eng.clientHostname) =>
         /\ ~IsCommandAllowed(eng.sm, "MAIL")
         /\ processSequenceError(readLine(Ctx(eng, obs)), "MAIL", "ok").obs.lastCode = 503
         /\ IsCommandAllowed(eng.sm, "EHLO")
         /\ LET e == handleEHLO(Ctx(eng, obs), "ok") IN e.resp = 250 /\ ~e.adv

\* the upgrade has just succeeded
C16_Witness ==
    /\ obs.lastOp = "tls_ok"
    /\ pc = "loop"
    /\ eng.tlsActive

\* C17: no line of the plaintext the client sent behind the STARTTLS line is
\* handed to the engine once TLS is active: the reader holds none of it after
\* the upgrade.
C17_NoPlaintextAfterUpgrade ==
    /\ ~obs.plainAfterTLS
    /\ eng.tlsActive => ~eng.buffered

\* plaintext was buffered behind STARTTLS, and a command was processed after
\* the upgrade
C17_Witness ==
    /\ obs.dropped
    /\ eng.tlsActive
    /\ obs.lastOp = "cmd"
    /\ eng.clientHostname

C19_ErrorBudget421 ==
    config.maxErrors > 0 =>
        /\ obs.lastOp = "parse" =>
             /\ obs.lastCode = 500
             /\ eng.consecutiveErrors < config.maxErrors
             /\ closePc = "idle" => pc = "loop"
        /\ obs.lastOp = "budget" =>
             /\ obs.lastCode = 421
             /\ eng.consecutiveErrors >= config.maxErrors
             /\ IsTerminal(eng.sm)
             /\ pc = "done"

\* the N-th unrecognised command in a row was answered 421
C19_Witness ==
    /\ config.maxErrors > 0
    /\ obs.lastOp = "budget"
    /\ obs.lastCode = 421
    /\ eng.consecutiveErrors = config.maxErrors
    /\ pc = "done"

\* C20: (Close() not called) when Run has returned because the error budget
\* was exhausted, on_disconnect(ResourceLimit) has fired.
C20_BudgetDisconnectReason ==
    (obs.cause = "budget" /\ pc = "done" /\ closePc = "idle")
        => obs.disconnects = <<"ResourceLimit">>

\* C21: (Close() not called, context not cancelled) whenever a command is about to be read in a
\* reported state of Greeted, Identified, MailFrom or RcptTo, a QUIT line is
\* dispatched and answered 221 with the state machine going through
\* Terminating to Terminated; after a QUIT no further line is read, and Run
\* returns after exactly one on_connect and one on_disconnect(Normal).
C21_QuitTerminates ==
    /\ (pc = "read" /\ CanAcceptCommands(eng.state) /\ closePc = "idle") =>
         /\ IsCommandAllowed(eng.sm, "QUIT")
         /\ LET x == processCommand(readLine(Ctx(eng, obs)), "QUIT", "ok", "ok")
            IN  /\ x.obs.lastCode = 221
                /\ x.obs.smPath = <<eng.sm, "Terminating", "Terminated">>
    /\ (obs.cause = "quit" /\ closePc = "idle" /\ ~ctxDone) =>
         /\ pc \in {"loop", "done"}
         /\ pc = "done" => (obs.connects = 1 /\ obs.disconnects = <<"Normal">>)

\* C22: (Close() not called) whenever a command is about to be read in a
\* reported state of Greeted, Identified, MailFrom or RcptTo, RSET is
\* dispatched and answered 250, no envelope is left, and the state (the state
\* machine's and the reported one) is Greeted if it was Greeted and Identified
\* otherwise; a second RSET gives the same reply and the same state.
C22_RsetIdempotent ==
    (pc = "read" /\ CanAcceptCommands(eng.state) /\ closePc = "idle") =>
        /\ IsCommandAllowed(eng.sm, "RSET")
        /\ LET x == handleRSET(Ctx(eng, obs))
               y == handleRSET(x)
               after == IF eng.state = "Greeted" THEN "Greeted" ELSE "Identified"
           IN  /\ x.resp = 250
               /\ ~x.eng.envelope.present
               /\ x.eng.state = after /\ x.eng.sm = after
               /\ IsCommandAllowed(x.eng.sm, "RSET")
               /\ y.resp = x.resp /\ y.eng.state = x.eng.state /\ y.eng.sm = x.eng.sm

\* C23: for the state machine in any state s it reaches (and in DataDone,
\* which it only passes through), TransitionForCommand(RSET, true) from
\* MailFrom, RcptTo or Data, and Reset() from MailFrom, RcptTo, Data or
\* DataDone, end in Identified; from Greeted or Identified either leaves the
\* state unchanged.
C23_ResetReachesIdentified ==
    \A s \in {eng.sm, "DataDone"} :
        LET x == [Ctx(eng, obs) EXCEPT !.eng.sm = s]
        IN  /\ InTransaction(s) => TransitionForCommand(x, "RSET").eng.sm = "Identified"
            /\ (InTransaction(s) \/ s = "DataDone") => Reset(x).eng.sm = "Identified"
            /\ s \in {"Greeted", "Identified"} =>
                 (TransitionForCommand(x, "RSET").eng.sm = s /\ Reset(x).eng.sm = s)

\* C24: (MaxMessageSize > 0, reply written) a DATA body that exceeds
\* MaxMessageSize is rejected with 552, the envelope is dropped and nothing of
\* it is stored.
C24_OversizeBody552 ==
    (obs.lastOp \in {"data_fail_toolarge", "data_fail_size"} /\ ~obs.ioErr) =>
        /\ obs.lastCode = 552
        /\ ~eng.envelope.present
        /\ obs.storeCalls = 0

\* C25: (SIZE extension on, MaxMessageSize > 0, the TLS policy and
\* MaxTransactions let MAIL through) a MAIL FROM with SIZE=N, N >
\* MaxMessageSize, is answered 552, allocates no envelope builder and leaves
\* the state Identified.
C25_DeclaredSizeRejected ==
    (/\ pc = "read" /\ IsCommandAllowed(eng.sm, "MAIL")
     /\ config.extSIZE /\ config.maxMessageSize > 0
     /\ ~(config.tlsPolicy = "Required" /\ ~eng.tlsActive)
     /\ ~(config.maxTransactions > 0 /\ eng.transactionCount >= config.maxTransactions)) =>
        \A arg \in {"oversize", "overflow"} :
            LET x == handleMAIL(Ctx(eng, obs), arg)
            IN  /\ x.resp = 552
                /\ ~x.eng.envelope.present
                /\ x.eng.sm = "Identified" /\ x.eng.state = "Identified"

\* C26: with MaxMessageSize > 0, the body readData accumulates never exceeds
\* MaxMessageSize, and neither does the data of an envelope that Finalize
\* returned or that was handed to Storage.Store.
C26_DataWithinLimit ==
    config.maxMessageSize > 0 =>
        /\ body <= config.maxMessageSize
        /\ obs.dataLen <= config.maxMessageSize
        /\ pc = "dataread" =>
             \A b \in BuilderOutcomes, s \in {"ok", "fail"} :
                 LET x == dataFinish(Ctx(eng, obs), body, b, s)
                 IN  x.obs.storeCalls > obs.storeCalls => body <= config.maxMessageSize

\* a body of exactly MaxMessageSize bytes was finalized, stored and accepted
C26_Witness ==
    /\ config.maxMessageSize > 0
    /\ obs.lastOp = "data_ok"
    /\ obs.dataLen = config.maxMessageSize
    /\ obs.stored >= 1

\* C27: with MaxRecipients > 0 the envelope builder never holds more than
\* MaxRecipients recipients; an RCPT read when it holds MaxRecipients is
\* answered 452 and leaves the builder as it is.
C27_RecipientLimit ==
    config.maxRecipients > 0 =>
        /\ eng.envelope.rcpts <= config.maxRecipients
        /\ (pc = "read" /\ IsCommandAllowed(eng.sm, "RCPT")
              /\ eng.envelope.rcpts >= config.maxRecipients) =>
             LET x == handleRCPT(Ctx(eng, obs), "ok")
             IN  x.resp = 452 /\ x.eng.envelope = eng.envelope

\* an RCPT beyond the limit was answered 452
C27_Witness ==
    /\ config.maxRecipients > 0
    /\ obs.lastOp = "cmd"
    /\ obs.lastCode = 452
    /\ eng.envelope.rcpts = config.maxRecipients
    /\ eng.sm = "RcptTo"

\* C28: Finalize succeeds only if mail_from is set, at least one recipient
\* was added and no writer handed out by the builder is still open; when one
\* of these fails on an unfinalized builder, Finalize returns NoMailFrom,
\* NoRecipients or DataWriterOpen and leaves the builder as it was.
C28_FinalizeGuards ==
    LET r == Finalize(bld)
        ready == /\ bld.b.mailFrom # "nil"
                 /\ Len(bld.b.recipients) >= 1
                 /\ ~WriterOutstanding(bld)
    IN  /\ r.err = "nil" => ready
        /\ (~bld.b.finalized /\ ~ready) =>
             /\ r.err \in {"NoMailFrom", "NoRecipients", "DataWriterOpen"}
             /\ r.s = bld

\* C29: the sender, the recipients and the data of every envelope Finalize
\* has returned are those it had when it was returned, whatever operations
\* followed.
C29_EnvelopeImmutable ==
    \A i \in 1..Len(bld.envs) :
        <<bld.envs[i].mailFrom, bld.envs[i].recipients, EnvelopeData(bld, i)>>
            = bld.envs[i].snap

\* C30: Reset leaves the builder in the observable state of a new builder
\* under a new id (no sender, no recipients, no params, empty data, not
\* finalized, and no writer handed out earlier able to put bytes into it),
\* and a second Reset changes nothing but the id.
C30_ResetFresh ==
    LET r == BuilderReset(bld)
        rr == BuilderReset(r)
    IN  /\ Observable(r) = NewStandardEnvelopeBuilder(0)
        /\ r.b.id # bld.b.id
        /\ \A w \in 1..Len(r.writers), byte \in Bytes :
               Observable(WriterWrite(r, w, byte).s) = Observable(r)
        /\ Observable(rr) = Observable(r)
        /\ rr.b.id # r.b.id

C32_MalformedArgumentCounted ==
    pc = "read" =>
        \A verb \in {"HELO", "EHLO", "MAIL", "RCPT"} :
            IsCommandAllowed(eng.sm, verb) =>
                LET x == processCommand(readLine(Ctx(eng, obs)), verb, "syntax", "ok")
                IN  x.resp = 501 => x.eng.consecutiveErrors = eng.consecutiveErrors + 1

\* C33: whenever an RCPT is about to be read, is allowed and passes the
\* recipient limit, and the Mailbox does not accept the recipient: the reply
\* is the Mailbox's response (550), the state (the state machine's and the
\* reported one), the envelope with its sender and recipients and
\* consecutive_errors are as before, the session goes on to the next
\* command, and an RCPT for a recipient the Mailbox accepts that follows is
\* answered 250.  After such a reply has been written the session is at the
\* top of its loop, still in MailFrom or RcptTo.
C33_RejectedRecipientLeavesSession ==
    /\ (/\ pc = "read" /\ IsCommandAllowed(eng.sm, "RCPT")
        /\ ~(config.maxRecipients > 0 /\ eng.envelope.rcpts >= config.maxRecipients)) =>
          LET x == processCommand(readLine(Ctx(eng, obs)), "RCPT", "reject", "ok")
              y == processCommand(readLine(Ctx(x.eng, x.obs)), "RCPT", "ok", "ok")
          IN  /\ x.resp = 550 /\ x.obs.lastCode = 550
              /\ x.eng.sm = eng.sm /\ x.eng.state = eng.state
              /\ x.eng.envelope = eng.envelope
              /\ x.eng.consecutiveErrors = eng.consecutiveErrors
              /\ x.err = "nil" /\ CanAcceptCommands(x.eng.sm)
              /\ IsCommandAllowed(x.eng.sm, "RCPT")
              /\ y.resp = 250 /\ y.eng.envelope.rcpts = eng.envelope.rcpts + 1
    /\ (/\ obs.lastOp = "cmd" /\ obs.lastCode = 550 /\ ~obs.ioErr
        /\ eng.sm \in {"MailFrom", "RcptTo"}) =>
          /\ pc = "loop"
          /\ eng.state = eng.sm
          /\ eng.envelope.present /\ eng.envelope.from
          /\ (eng.sm = "MailFrom") = (eng.envelope.rcpts = 0)

\* a recipient was rejected with 550 after another had been accepted: the
\* envelope still holds the accepted one
C33_Witness ==
    /\ obs.lastOp = "cmd" /\ obs.lastCode = 550 /\ ~obs.ioErr
    /\ eng.sm = "RcptTo" /\ eng.state = "RcptTo"
    /\ eng.envelope.rcpts = 1
    /\ pc = "loop"

\* C34: for every state and every verb (an unknown verb included),
\* IsCommandAllowed (membership in AllowedCommands(state)) and
\* IsStateValidForCommand (the state is listed for the verb in
\* CommandStateRequirements) give the same answer, which is the entry of the
\* documented table "Command Validity by State"; no verb is allowed in Data.
C34_CommandTablesAgree ==
    /\ lk.allowed # "unasked" =>
         /\ lk.allowed = YesNo(lk.state \in CommandValidityByState(lk.verb))
         /\ lk.state = "Data" => lk.allowed = "no"
    /\ lk.valid # "unasked" =>
         /\ lk.valid = YesNo(lk.state \in CommandValidityByState(lk.verb))
         /\ lk.state = "Data" => lk.valid = "no"
    /\ (lk.allowed # "unasked" /\ lk.valid # "unasked") => lk.allowed = lk.valid

\* both tables were asked about DATA in RcptTo and both said yes
C34_Witness ==
    /\ lk.state = "RcptTo" /\ lk.verb = "DATA"
    /\ lk.allowed = "yes" /\ lk.valid = "yes"

\* C35: the null path <> is accepted as reverse-path only: whenever an RCPT
\* is about to be dispatched, an RCPT TO:<> is not answered 250 and adds no
\* recipient to the envelope.
C35_NullPathNeverRecipient ==
    (pc = "read" /\ IsCommandAllowed(eng.sm, "RCPT")) =>
        LET x == handleRCPT(Ctx(eng, obs), "null")
        IN  x.resp # 250 /\ x.eng.envelope.rcpts = eng.envelope.rcpts

\* C36: under TLSPolicy Immediate there is no STARTTLS negotiation: an EHLO
\* reply never lists STARTTLS, no STARTTLS command moves the session (the
\* state machine or the reported state) to StartTLS, and no TLS handshake is
\* started.
C36_ImmediateNeverNegotiates ==
    config.tlsPolicy = "Immediate" =>
        /\ eng.sm # "StartTLS" /\ eng.state # "StartTLS"
        /\ pc # "tls"
        /\ obs.lastOp \notin {"tls_ok", "tls_fail"}
        /\ (pc = "read" /\ IsCommandAllowed(eng.sm, "EHLO")) =>
              ~handleEHLO(Ctx(eng, obs), "ok").adv
        /\ (pc = "read" /\ IsCommandAllowed(eng.sm, "STARTTLS")) =>
              LET x == handleSTARTTLS(Ctx(eng, obs))
              IN  x.resp # 220 /\ x.eng.sm # "StartTLS" /\ x.eng.state # "StartTLS"

\* C37: every time the engine is about to read the next command (and Close()
\* has not been called), the reported state (SessionInfo.State()) is the
\* state of the state machine.
C37_ReportedStateIsMachineState ==
    (pc = "read" /\ closePc = "idle") => eng.state = eng.sm

\* C38: no line of a message body (the bytes sent after the 354 up to the
\* terminator line) is read by processOneCommand and parsed and answered as
\* a command, also when readData stopped before the terminator (message too
\* large, cancellation).
C38_BodyNeverParsedAsCommand ==
    obs.bodyLeft # "parsed"

\* C39: whenever a STARTTLS command is about to be dispatched, it is answered
\* 220 only if an EHLO in the same configuration and TLS state lists
\* STARTTLS in its reply; with the STARTTLS extension flag off it is never
\* answered 220.  No session with the flag off reaches StartTLS.
C39_Starttls220OnlyIfAdvertised ==
    /\ (pc = "read" /\ IsCommandAllowed(eng.sm, "STARTTLS")) =>
          LET x == handleSTARTTLS(Ctx(eng, obs))
          IN  x.resp = 220 =>
                /\ ehloAdvertisesSTARTTLS(eng.tlsActive)
                /\ handleEHLO(Ctx(eng, obs), "ok").adv
                /\ config.extSTARTTLS
    /\ ~config.extSTARTTLS => (eng.state # "StartTLS" /\ eng.sm # "StartTLS")

\* C40: a session completes at most one TLS handshake; tls_active, once
\* true, stays true; and once it is true every STARTTLS the engine
\* dispatches or refuses for the state is answered 503, the session (the
\* state machine and the reported state) is never in StartTLS again and no
\* further handshake is started.
C40_TLSUpgradeAtMostOnce ==
    /\ obs.handshakes <= 1
    /\ eng.tlsActive = (obs.handshakes >= 1)
    /\ eng.tlsActive =>
         /\ eng.state # "StartTLS" /\ eng.sm # "StartTLS" /\ pc # "tls"
         /\ pc = "read" =>
              LET r == readLine(Ctx(eng, obs))
                  x == IF IsCommandAllowed(eng.sm, "STARTTLS")
                       THEN processCommand(r, "STARTTLS", "ok", "ok")
                       ELSE processSequenceError(r, "STARTTLS", "ok")
              IN  /\ x.obs.lastCode = 503
                  /\ x.eng.tlsActive
                  /\ x.eng.state # "StartTLS" /\ x.eng.sm # "StartTLS"

\* after the upgrade and a new EHLO, a STARTTLS was dispatched and answered 503
C40_Witness ==
    /\ eng.tlsActive /\ obs.handshakes = 1
    /\ obs.lastOp = "cmd" /\ obs.lastCode = 503 /\ ~obs.ioErr
    /\ eng.sm = "Identified" /\ eng.state = "Identified"

====
